---- MODULE Spec2Model ----
(***************************************************************************)
(* FIDO2 HMAC secret deriver: the derivation protocol of                   *)
(* internal/crypto/hmac.go (salt derivation, credential record store,      *)
(* create-or-reuse decision, assertion) as a state machine, with the       *)
(* configuration validation and the program run of main.go around it.      *)
(*                                                                         *)
(* File names and file contents are sequences of ASCII codes and byte      *)
(* strings are sequences of integers in 0..255, so that the base64 and     *)
(* file name code is modelled character by character. Device paths and     *)
(* relying party ids, which the code only concatenates, are strings.       *)
(***************************************************************************)
EXTENDS Integers, Sequences, FiniteSets, TLC

VARIABLES
    dir,       \* the working directory: a set of entries [name, data, readable, perm]
    auth,      \* the authenticator: credential ids it has issued so far
    inv,       \* the running (or last) invocation of DeriveHMACSecret
    hist,      \* summaries of the completed invocations, oldest first
    saltRun,   \* one run of generateDeterministicSalt, loop position included
    storeRun,  \* one saveCredentialID / loadCredentialID exercise
    cfgRun,    \* one ValidateConfiguration call and what Run does with its answer
    proc,      \* the process: main and Application.Run, standard output, exit code
    race       \* two invocations of DeriveHMACSecret running at the same time

vars == <<dir, auth, inv, hist, saltRun, storeRun, cfgRun, proc, race>>

----------------------------------------------------------------------------
(* Characters *)

Slash      == 47   \* '/'
Plus       == 43   \* '+'
Underscore == 95   \* '_'
Minus      == 45   \* '-'
Pad        == 61   \* '='

\* ".cred"
CredSuffix == <<46, 99, 114, 101, 100>>

NoError == "ok"

----------------------------------------------------------------------------
(* encoding/base64, StdEncoding (RFC 4648, padded) *)

B64Char(v) ==
    IF v < 26 THEN 65 + v
    ELSE IF v < 52 THEN 97 + (v - 26)
    ELSE IF v < 62 THEN 48 + (v - 52)
    ELSE IF v = 62 THEN Plus
    ELSE Slash

\* the value of an alphabet character, -1 for any other character
B64Val(c) ==
    IF c \in 65..90 THEN c - 65
    ELSE IF c \in 97..122 THEN c - 97 + 26
    ELSE IF c \in 48..57 THEN c - 48 + 52
    ELSE IF c = Plus THEN 62
    ELSE IF c = Slash THEN 63
    ELSE -1

RECURSIVE EncodeToString(_)
EncodeToString(b) ==
    IF Len(b) = 0 THEN <<>>
    ELSE IF Len(b) = 1 THEN
        << B64Char(b[1] \div 4), B64Char((b[1] % 4) * 16), Pad, Pad >>
    ELSE IF Len(b) = 2 THEN
        << B64Char(b[1] \div 4),
           B64Char((b[1] % 4) * 16 + (b[2] \div 16)),
           B64Char((b[2] % 16) * 4),
           Pad >>
    ELSE
        << B64Char(b[1] \div 4),
           B64Char((b[1] % 4) * 16 + (b[2] \div 16)),
           B64Char((b[2] % 16) * 4 + (b[3] \div 64)),
           B64Char(b[3] % 64) >>
        \o EncodeToString(SubSeq(b, 4, Len(b)))

DecodeFailed == [ok |-> FALSE, val |-> <<>>]

RECURSIVE DecodeQuads(_)
DecodeQuads(s) ==
    IF Len(s) = 0 THEN [ok |-> TRUE, val |-> <<>>]
    ELSE IF Len(s) < 4 THEN DecodeFailed
    ELSE
        LET a == B64Val(s[1])
            b == B64Val(s[2])
            c == B64Val(s[3])
            d == B64Val(s[4])
            rest == SubSeq(s, 5, Len(s))
        IN  IF a < 0 \/ b < 0 THEN DecodeFailed
            ELSE IF s[3] = Pad THEN
                IF s[4] = Pad /\ Len(rest) = 0
                THEN [ok |-> TRUE, val |-> << a * 4 + (b \div 16) >>]
                ELSE DecodeFailed
            ELSE IF c < 0 THEN DecodeFailed
            ELSE IF s[4] = Pad THEN
                IF Len(rest) = 0
                THEN [ok |-> TRUE,
                      val |-> << a * 4 + (b \div 16), (b % 16) * 16 + (c \div 4) >>]
                ELSE DecodeFailed
            ELSE IF d < 0 THEN DecodeFailed
            ELSE
                LET r == DecodeQuads(rest)
                IN  IF r.ok
                    THEN [ok |-> TRUE,
                          val |-> << a * 4 + (b \div 16),
                                     (b % 16) * 16 + (c \div 4),
                                     (c % 4) * 64 + d >> \o r.val]
                    ELSE DecodeFailed

\* carriage returns and line feeds are skipped by the decoder
IsNewline(c) == c \in {10, 13}

DecodeString(s) == DecodeQuads(SelectSeq(s, LAMBDA c : ~IsNewline(c)))

----------------------------------------------------------------------------
(* strings *)

ReplaceAll(s, old, new) == [i \in 1..Len(s) |-> IF s[i] = old THEN new ELSE s[i]]

HasSuffix(s, suffix) ==
    /\ Len(s) >= Len(suffix)
    /\ SubSeq(s, Len(s) - Len(suffix) + 1, Len(s)) = suffix

RECURSIVE LexLess(_, _)
LexLess(a, b) ==
    IF Len(b) = 0 THEN FALSE
    ELSE IF Len(a) = 0 THEN TRUE
    ELSE IF a[1] # b[1] THEN a[1] < b[1]
    ELSE LexLess(Tail(a), Tail(b))

----------------------------------------------------------------------------
(* the credential record store: files of the working directory *)

\* permission bits of a record file as created: os.WriteFile(..., 0644), under a
\* umask that clears none of them (the usual 022)
RecordPerm == <<6, 4, 4>>

File(name, data) == [name |-> name, data |-> data, readable |-> TRUE, perm |-> RecordPerm]

Names(d) == {e.name : e \in d}

\* os.ReadDir: the entries sorted by file name
RECURSIVE ReadDir(_)
ReadDir(d) ==
    IF d = {} THEN <<>>
    ELSE LET first == CHOOSE e \in d : \A f \in d \ {e} : LexLess(e.name, f.name)
         IN  <<first>> \o ReadDir(d \ {first})

\* os.WriteFile: creates the file, or truncates and rewrites an existing one
\* (an existing file keeps its permission bits)
WriteFile(d, name, data) ==
    IF name \in Names(d)
    THEN {IF e.name = name THEN [e EXCEPT !.data = data] ELSE e : e \in d}
    ELSE d \cup {File(name, data)}

\* getCredentialFilename without the two replacements
getCredentialFilenameUnsanitized(credentialID) ==
    LET base64Cred == EncodeToString(credentialID)
        cut == IF Len(base64Cred) > 16 THEN SubSeq(base64Cred, 1, 16) ELSE base64Cred
    IN  cut \o CredSuffix

getCredentialFilename(credentialID) ==
    LET base64Cred == EncodeToString(credentialID)
        cut == IF Len(base64Cred) > 16 THEN SubSeq(base64Cred, 1, 16) ELSE base64Cred
        filename == ReplaceAll(ReplaceAll(cut, Slash, Underscore), Plus, Minus)
    IN  filename \o CredSuffix

\* an entry os.ReadFile cannot read (a directory, a file of another user) cannot
\* be opened for writing either
CanWrite(d, name) == \A e \in d : e.name = name => e.readable

\* saveCredentialID writing the file name where the encoded id belongs
saveCredentialIDNameAsData(d, credentialID, writeOk) ==
    LET filename == getCredentialFilename(credentialID)
    IN  IF ~writeOk \/ ~CanWrite(d, filename)
        THEN [err |-> "save failed", dir |-> d, file |-> filename]
        ELSE [err |-> NoError, dir |-> WriteFile(d, filename, filename), file |-> filename]

\* saveCredentialID; writeOk is the outcome of os.WriteFile
saveCredentialID(d, credentialID, writeOk) ==
    LET filename == getCredentialFilename(credentialID)
        credentialData == EncodeToString(credentialID)
    IN  IF ~writeOk \/ ~CanWrite(d, filename)
        THEN [err |-> "save failed", dir |-> d, file |-> filename]
        ELSE [err |-> NoError, dir |-> WriteFile(d, filename, credentialData),
              file |-> filename]

NotFound == [err |-> "not found", id |-> <<>>, file |-> <<>>]

\* the loop of loadCredentialID looking for ".crd" instead of ".cred"
RECURSIVE loadScanWrongSuffix(_)
loadScanWrongSuffix(files) ==
    IF Len(files) = 0 THEN NotFound
    ELSE LET file == Head(files)
             decoded == DecodeString(file.data)
         IN  IF HasSuffix(file.name, <<46, 99, 114, 100>>) /\ file.readable /\ decoded.ok
             THEN [err |-> NoError, id |-> decoded.val, file |-> file.name]
             ELSE loadScanWrongSuffix(Tail(files))

\* the loop of loadCredentialID over the directory entries
RECURSIVE loadScan(_)
loadScan(files) ==
    IF Len(files) = 0 THEN NotFound
    ELSE LET file == Head(files)
             decoded == DecodeString(file.data)
         IN  IF HasSuffix(file.name, CredSuffix) /\ file.readable /\ decoded.ok
             THEN [err |-> NoError, id |-> decoded.val, file |-> file.name]
             ELSE loadScan(Tail(files))

\* loadCredentialID scanning the entries from the last to the first
loadCredentialIDLast(d, readDirOk) ==
    IF ~readDirOk
    THEN [err |-> "read dir failed", id |-> <<>>, file |-> <<>>]
    ELSE LET files == ReadDir(d)
         IN  loadScan([i \in 1..Len(files) |-> files[Len(files) + 1 - i]])

\* loadCredentialID; readDirOk is the outcome of os.ReadDir
loadCredentialID(d, readDirOk) ==
    IF ~readDirOk
    THEN [err |-> "read dir failed", id |-> <<>>, file |-> <<>>]
    ELSE loadScan(ReadDir(d))

----------------------------------------------------------------------------
(* the salt deriver *)

\* crypto/sha256 as an ideal hash: the digest of s is a value that names s, and
\* byte i of it is the pair <<s, i>>, so that the digests of different inputs differ,
\* and differ in every byte
HashSize == 32

Sum256(s) == [sha256 |-> s]

\* hash[:n], the first n bytes of a digest
DigestBytes(hash, n) == [i \in 1..n |-> <<hash.sha256, i>>]

\* fmt.Sprintf("%s:%s", device.Path, config.RelyingPartyID)
SaltInput(path, rpID) == path \o ":" \o rpID

\* fmt.Sprintf("%s:%d", saltInput, counter)
CounterInput(saltInput, counter) == saltInput \o ":" \o ToString(counter)

\* the loop body without the truncation of the last block
saltBlockWhole(salt, counter, size, saltInput) ==
    salt \o DigestBytes(Sum256(CounterInput(saltInput, counter)), HashSize)

\* the loop body with the counter starting at 1
saltBlockFromOne(salt, counter, size, saltInput) ==
    LET counterHash == Sum256(CounterInput(saltInput, counter + 1))
        remaining == size - Len(salt)
    IN  IF remaining >= HashSize
        THEN salt \o DigestBytes(counterHash, HashSize)
        ELSE salt \o DigestBytes(counterHash, remaining)

\* one pass of the block loop: the salt with the next block appended
saltBlock(salt, counter, size, saltInput) ==
    LET counterHash == Sum256(CounterInput(saltInput, counter))
        remaining == size - Len(salt)
    IN  IF remaining >= HashSize
        THEN salt \o DigestBytes(counterHash, HashSize)
        ELSE salt \o DigestBytes(counterHash, remaining)

RECURSIVE saltLoop(_, _, _, _)
saltLoop(salt, counter, size, saltInput) ==
    IF Len(salt) < size
    THEN saltLoop(saltBlock(salt, counter, size, saltInput), counter + 1, size, saltInput)
    ELSE salt

\* generateDeterministicSalt(size, device, config), for size >= 0
generateDeterministicSalt(size, path, rpID) ==
    LET saltInput == SaltInput(path, rpID)
        hash == Sum256(saltInput)
    IN  IF size <= HashSize
        THEN DigestBytes(hash, size)
        ELSE saltLoop(<<>>, 0, size, saltInput)

----------------------------------------------------------------------------
(* values the specifications draw their inputs from *)

SaltPaths == {"a:b", "a", "/dev/hidraw10"}
SaltRpIDs == {"c", "b:c", "e2e-git"}

MaxSaltSize == 70
MaxSaltRuns == 2

\* bytes whose encodings cover '+', '/', both paddings and plain letters
StoreBytes == {0, 190, 239, 251, 255}
MaxIdLen == 3
MaxStoreRounds == 2

ShortIds == UNION {[1..n -> StoreBytes] : n \in 0..MaxIdLen}
\* twelve bytes, encoded as sixteen characters: ids that share them share a file name
Prefix12 == [i \in 1..12 |-> 255]
StoreIds == ShortIds \cup {Prefix12 \o s : s \in ShortIds}

\* "notes.txt", "!.cred" (sorts before any record name), "~.cred" (sorts after),
\* "AAAA" (base64 of three zero bytes), "!!" (not base64)
NotesTxt == <<110, 111, 116, 101, 115, 46, 116, 120, 116>>
BangCred == <<33>> \o CredSuffix
TildeCred == <<126>> \o CredSuffix
StoreDirs ==
    { {},
      {File(NotesTxt, <<104, 105>>)},
      {File(TildeCred, <<33, 33>>)},
      {File(BangCred, <<65, 65, 65, 65>>)},
      {File(TildeCred, <<65, 65, 65, 65>>)},
      \* records that sort first and cannot be used: not base64, not readable
      {File(BangCred, <<33, 33>>)},
      {[File(BangCred, <<65, 65, 65, 65>>) EXCEPT !.readable = FALSE],
       File(TildeCred, <<65, 65, 65, 65>>)} }

\* the parts of the state a specification does not use
IdleInv == [pc |-> "idle"]
IdleHist == [runs |-> 0, faults |-> 0]
IdleAuth == [issued |-> {}]
IdleSaltRun == [pc |-> "idle"]
IdleStoreRun == [pc |-> "idle"]
IdleCfgRun == [pc |-> "idle"]
IdleProc == [pc |-> "idle"]
IdleRace == [pc |-> "idle"]

----------------------------------------------------------------------------
(* SaltSpec: generateDeterministicSalt, statement by statement *)

SaltInit ==
    /\ saltRun \in [pc : {"call"}, path : SaltPaths, rpID : SaltRpIDs,
                    size : 1..MaxSaltSize, salt : {<<>>}, counter : {0},
                    err : {"pending"}, seen : {{}}]
    /\ dir = {}
    /\ auth = IdleAuth
    /\ inv = IdleInv
    /\ hist = IdleHist
    /\ storeRun = IdleStoreRun
    /\ cfgRun = IdleCfgRun
    /\ proc = IdleProc
    /\ race = IdleRace

\* lines 128-141: the hash of the salt input, the short case, the loop's set-up
SaltEnter ==
    /\ saltRun.pc = "call"
    /\ LET saltInput == SaltInput(saltRun.path, saltRun.rpID)
           hash == Sum256(saltInput)
       IN  saltRun' = IF saltRun.size <= HashSize
                      THEN [saltRun EXCEPT !.pc = "done", !.err = NoError,
                                           !.salt = DigestBytes(hash, saltRun.size)]
                      ELSE [saltRun EXCEPT !.pc = "loop", !.salt = <<>>, !.counter = 0]
    /\ UNCHANGED <<dir, auth, inv, hist, storeRun, cfgRun, proc, race>>

\* lines 143-153: one pass of the loop
SaltLoopBody ==
    /\ saltRun.pc = "loop"
    /\ Len(saltRun.salt) < saltRun.size
    /\ saltRun' = [saltRun EXCEPT
           !.salt = saltBlock(saltRun.salt, saltRun.counter, saltRun.size,
                              SaltInput(saltRun.path, saltRun.rpID)),
           !.counter = saltRun.counter + 1]
    /\ UNCHANGED <<dir, auth, inv, hist, storeRun, cfgRun, proc, race>>

\* line 155: the loop condition fails, the salt is returned
SaltLoopExit ==
    /\ saltRun.pc = "loop"
    /\ ~(Len(saltRun.salt) < saltRun.size)
    /\ saltRun' = [saltRun EXCEPT !.pc = "done", !.err = NoError]
    /\ UNCHANGED <<dir, auth, inv, hist, storeRun, cfgRun, proc, race>>

SaltSummary(r) == [path |-> r.path, rpID |-> r.rpID, size |-> r.size, salt |-> r.salt]

\* another call, with the same size, for another device path and relying party
SaltAgain ==
    /\ saltRun.pc = "done"
    /\ Cardinality(saltRun.seen) + 1 < MaxSaltRuns
    /\ \E path \in SaltPaths, rpID \in SaltRpIDs :
          saltRun' = [saltRun EXCEPT !.pc = "call", !.path = path, !.rpID = rpID,
                                     !.salt = <<>>, !.counter = 0, !.err = "pending",
                                     !.seen = saltRun.seen \cup {SaltSummary(saltRun)}]
    /\ UNCHANGED <<dir, auth, inv, hist, storeRun, cfgRun, proc, race>>

SaltNext == SaltEnter \/ SaltLoopBody \/ SaltLoopExit \/ SaltAgain

SaltSpec == SaltInit /\ [][SaltNext]_vars

\* the same specification with the scheduling of a running call: it keeps running
SaltFairSpec == SaltSpec /\ WF_vars(SaltEnter \/ SaltLoopBody \/ SaltLoopExit)

\* the results known in a state: the earlier calls' and, once it has returned, this call's
SaltResults ==
    saltRun.seen \cup (IF saltRun.pc = "done" THEN {SaltSummary(saltRun)} ELSE {})

----------------------------------------------------------------------------
(* StoreSpec: saveCredentialID followed by loadCredentialID *)

StoreInit ==
    /\ dir \in StoreDirs
    /\ \E id \in StoreIds :
          storeRun = [pc |-> "save", id |-> id, dir0 |-> dir, round |-> 1,
                      saved |-> [err |-> NoError], loaded |-> NotFound]
    /\ auth = IdleAuth
    /\ inv = IdleInv
    /\ hist = IdleHist
    /\ saltRun = IdleSaltRun
    /\ cfgRun = IdleCfgRun
    /\ proc = IdleProc
    /\ race = IdleRace

StoreSave ==
    /\ storeRun.pc = "save"
    /\ \E writeOk \in BOOLEAN :
          LET r == saveCredentialID(dir, storeRun.id, writeOk)
          IN  /\ dir' = r.dir
              /\ storeRun' = [storeRun EXCEPT !.pc = "load",
                                              !.saved = [err |-> r.err, file |-> r.file]]
    /\ UNCHANGED <<auth, inv, hist, saltRun, cfgRun, proc, race>>

StoreLoad ==
    /\ storeRun.pc = "load"
    /\ \E readDirOk \in BOOLEAN :
          storeRun' = [storeRun EXCEPT !.pc = "loaded",
                                       !.loaded = loadCredentialID(dir, readDirOk)]
    /\ UNCHANGED <<dir, auth, inv, hist, saltRun, cfgRun, proc, race>>

\* a second credential id whose record takes the first one's file name, or not
StoreAgainIds(id) ==
    {Prefix12 \o <<0>>, Prefix12 \o <<255>>, <<0>>, <<251, 239, 190>>} \ {id}

StoreAgain ==
    /\ storeRun.pc = "loaded"
    /\ storeRun.round < MaxStoreRounds
    /\ \E id \in StoreAgainIds(storeRun.id) :
          storeRun' = [pc |-> "save", id |-> id, dir0 |-> dir,
                       round |-> storeRun.round + 1,
                       saved |-> [err |-> NoError], loaded |-> NotFound]
    /\ UNCHANGED <<dir, auth, inv, hist, saltRun, cfgRun, proc, race>>

StoreNext == StoreSave \/ StoreLoad \/ StoreAgain

StoreSpec == StoreInit /\ [][StoreNext]_vars

----------------------------------------------------------------------------
(* Spec: sequential invocations of DeriveHMACSecret *)

MaxRuns == 2
MaxCreds == 2

YubiKey10 == [Name |-> "YubiKey 5 NFC", Manufacturer |-> "Yubico", Path |-> "/dev/hidraw10", Index |-> 1]
\* another token, plugged in at the same path
Solo10 == [Name |-> "Solo 2", Manufacturer |-> "SoloKeys", Path |-> "/dev/hidraw10", Index |-> 1]
Solo1 == [Name |-> "Solo 2", Manufacturer |-> "SoloKeys", Path |-> "/dev/hidraw1", Index |-> 2]
Devices == {YubiKey10, Solo10, Solo1}

DefaultConfiguration ==
    [RelyingPartyID |-> "e2e-git", RelyingPartyName |-> "End-to-End Git Encryption",
     UserID |-> "hmac-user", UserName |-> "hmac-user",
     UserDisplayName |-> "HMAC Secret User", SaltSize |-> 32]
\* the same relying party and salt size for another user
OtherUserConfiguration ==
    [DefaultConfiguration EXCEPT !.UserID = "alice", !.UserName = "alice",
                                 !.UserDisplayName = "Alice"]
\* another relying party ("x") and a salt of more than one hash block
WideConfiguration ==
    [DefaultConfiguration EXCEPT !.RelyingPartyID = "x", !.RelyingPartyName = "X",
                                 !.SaltSize = 40]
Configurations == {DefaultConfiguration, OtherUserConfiguration, WideConfiguration}

\* the calls made: one device and relying party with two PINs, another token and
\* another user at the same path, another path, another relying party and salt size
Calls ==
    { [device |-> YubiKey10, pin |-> "123456", config |-> DefaultConfiguration],
      [device |-> YubiKey10, pin |-> "0000", config |-> DefaultConfiguration],
      [device |-> Solo10, pin |-> "123456", config |-> OtherUserConfiguration],
      [device |-> Solo1, pin |-> "123456", config |-> DefaultConfiguration],
      [device |-> YubiKey10, pin |-> "123456", config |-> WideConfiguration] }

\* how many operations of the environment (opening the device, a ceremony, a
\* directory listing, a file write) may fail or misbehave in one behaviour
MaxFaults == 2

\* the credential ids the authenticator may hand out; odd ones share their first 12 bytes
CredId(k) == IF k % 2 = 1 THEN Prefix12 \o <<k>> ELSE <<251, 239, 190, k>>
CredPool == {CredId(k) : k \in 1..MaxCreds}

InitDirs ==
    { {},
      {File(NotesTxt, <<104, 105>>)},
      {File(TildeCred, <<33, 33>>)},
      {[File(BangCred, <<65, 65, 65, 65>>) EXCEPT !.readable = FALSE]} }

\* a byte that tells the salts of the model apart, from the text that was hashed
SaltTextCode(salt) ==
    IF Len(salt) = 0 THEN 0
    ELSE LET text == salt[1][1]
         IN  CASE text = "/dev/hidraw10:e2e-git" -> 1
               [] text = "/dev/hidraw1:e2e-git" -> 2
               [] text = "/dev/hidraw10:x:0" -> 3
               [] OTHER -> 4

\* the HMAC-secret of the authenticator: a fixed function of the credential and the
\* salt, here four bytes that differ for the different credentials and salts
HmacSecret(credentialID, salt) ==
    << 251,
       IF Len(credentialID) = 0 THEN 0 ELSE credentialID[Len(credentialID)],
       Len(salt),
       SaltTextCode(salt) >>

\* what dev.Assertion may answer: an error, no HMAC-secret, or the HMAC-secret
AssertionAnswers(credentialID, salt) ==
    { [err |-> "assertion error", HMACSecret |-> <<>>],
      [err |-> NoError, HMACSecret |-> <<>>],
      [err |-> NoError, HMACSecret |-> HmacSecret(credentialID, salt)] }

\* the arguments of dev.Assertion with the hash of no data as client data hash
AssertionRequestEmptyHash(credentialID, salt, pin, config) ==
    [rpID |-> config.RelyingPartyID,
     clientDataHash |-> Sum256(<<>>),
     credentialIDs |-> <<credentialID>>, pin |-> pin,
     extensions |-> <<"hmac-secret">>, HMACSalt |-> salt, UP |-> TRUE]

\* the arguments deriveSecret hands to dev.Assertion
AssertionRequest(credentialID, salt, pin, config) ==
    [rpID |-> config.RelyingPartyID, clientDataHash |-> Sum256(salt),
     credentialIDs |-> <<credentialID>>, pin |-> pin,
     extensions |-> <<"hmac-secret">>, HMACSalt |-> salt, UP |-> TRUE]

\* the arguments createCredential hands to dev.MakeCredential
MakeCredentialRequest(pin, config) ==
    [clientDataHash |-> Sum256("fido2-hmac-credential:" \o config.RelyingPartyID),
     rp |-> [ID |-> config.RelyingPartyID, Name |-> config.RelyingPartyName],
     user |-> [ID |-> config.UserID, Name |-> config.UserName,
               DisplayName |-> config.UserDisplayName],
     algorithm |-> "ES256", pin |-> pin,
     extensions |-> <<"hmac-secret">>, RK |-> TRUE]

\* deriveSecret without the check for an empty HMAC-secret
deriveSecretUnchecked(assertion) ==
    IF assertion.err # NoError
    THEN [err |-> "AssertionFailed", secret |-> <<>>]
    ELSE [err |-> NoError, secret |-> assertion.HMACSecret]

\* deriveSecret returning the first half of the HMAC-secret
deriveSecretTruncated(assertion) ==
    IF assertion.err # NoError
    THEN [err |-> "AssertionFailed", secret |-> <<>>]
    ELSE IF Len(assertion.HMACSecret) = 0
    THEN [err |-> "EmptySecretReturned", secret |-> <<>>]
    ELSE [err |-> NoError,
          secret |-> SubSeq(assertion.HMACSecret, 1, (Len(assertion.HMACSecret) + 1) \div 2)]

\* deriveSecret, after dev.Assertion has answered
deriveSecret(assertion) ==
    IF assertion.err # NoError
    THEN [err |-> "AssertionFailed", secret |-> <<>>]
    ELSE IF Len(assertion.HMACSecret) = 0
    THEN [err |-> "EmptySecretReturned", secret |-> <<>>]
    ELSE [err |-> NoError, secret |-> assertion.HMACSecret]

Progress(msg) == [kind |-> "progress", msg |-> msg]
Info(msg) == [kind |-> "info", msg |-> msg]
Success(msg) == [kind |-> "success", msg |-> msg]
Error(msg) == [kind |-> "error", msg |-> msg]

\* no session; no result, no answer
Nil == "nil"
None == [none |-> TRUE]

NewInvocation(device, pin, config, d) ==
    [pc |-> "open", device |-> device, pin |-> pin, config |-> config,
     \* env and dir0 record, for the properties, what the environment did to this
     \* invocation and the directory it started in
     dev |-> Nil, salt |-> <<>>, existing |-> NotFound, credentialID |-> <<>>,
     saveErr |-> NoError, result |-> None, err |-> NoError,
     made |-> <<>>, asserted |-> <<>>, answer |-> None, ui |-> <<>>,
     env |-> <<>>, dir0 |-> d]

Init ==
    /\ dir \in InitDirs
    /\ auth = [issued |-> {}]
    /\ inv = IdleInv
    /\ hist = [runs |-> 0, faults |-> 0, prev |-> IdleInv, salts |-> {}]
    /\ saltRun = IdleSaltRun
    /\ storeRun = IdleStoreRun
    /\ cfgRun = IdleCfgRun
    /\ proc = IdleProc
    /\ race = IdleRace

\* the outcomes an operation of the environment may have: TRUE is success
Outcomes == IF hist.faults < MaxFaults THEN BOOLEAN ELSE {TRUE}

Counted(h, ok) == IF ok THEN h ELSE [h EXCEPT !.faults = h.faults + 1]

\* the caller: the previous invocation has returned, the next one starts
Call ==
    /\ inv.pc \in {"idle", "done"}
    /\ hist.runs < MaxRuns
    /\ \E c \in Calls : inv' = NewInvocation(c.device, c.pin, c.config, dir)
    /\ hist' = IF inv.pc = "done" THEN [hist EXCEPT !.prev = inv] ELSE hist
    /\ UNCHANGED <<dir, auth, saltRun, storeRun, cfgRun, proc, race>>

\* what the invocation leaves behind when it returns
Returned(h, i) ==
    [h EXCEPT !.runs = h.runs + 1,
              !.salts = IF i.dev = Nil THEN h.salts
                        ELSE h.salts \cup
                             {[path |-> i.device.Path, rpID |-> i.config.RelyingPartyID,
                               size |-> i.config.SaltSize, salt |-> i.salt]}]

\* step 1 (lines 52-60): libfido2.NewDevice
Connect ==
    /\ inv.pc = "open"
    /\ \E ok \in Outcomes :
          LET ui == Append(inv.ui, Progress("Connecting to FIDO2 device..."))
              failed == [inv EXCEPT !.pc = "done", !.ui = ui, !.err = "TransportOpenFailed",
                                    !.env = Append(inv.env, "open failed")]
          IN  IF ok
              THEN /\ inv' = [inv EXCEPT !.pc = "salt", !.ui = ui, !.dev = inv.device.Path]
                   /\ hist' = hist
              ELSE /\ inv' = failed
                   /\ hist' = Returned(Counted(hist, FALSE), failed)
    /\ UNCHANGED <<dir, auth, saltRun, storeRun, cfgRun, proc, race>>

\* step 2 with the PIN mixed into the salt input
ComputeSaltWithPin ==
    /\ inv.pc = "salt"
    /\ inv' = [inv EXCEPT
           !.pc = "load",
           !.ui = Append(inv.ui, Progress("Generating deterministic salt...")),
           !.salt = generateDeterministicSalt(inv.config.SaltSize, inv.device.Path,
                                              inv.config.RelyingPartyID \o inv.pin)]
    /\ UNCHANGED <<dir, auth, hist, saltRun, storeRun, cfgRun, proc, race>>

\* step 2 (lines 62-67): the salt
ComputeSalt ==
    /\ inv.pc = "salt"
    /\ inv' = [inv EXCEPT
           !.pc = "load",
           !.ui = Append(inv.ui, Progress("Generating deterministic salt...")),
           !.salt = generateDeterministicSalt(inv.config.SaltSize, inv.device.Path,
                                              inv.config.RelyingPartyID)]
    /\ UNCHANGED <<dir, auth, hist, saltRun, storeRun, cfgRun, proc, race>>

\* step 3 (lines 69-74, 86-90): loadCredentialID and the choice it decides
LoadCredential ==
    /\ inv.pc = "load"
    /\ \E readDirOk \in Outcomes :
          LET existing == loadCredentialID(dir, readDirOk)
          IN  /\ inv' = IF existing.err # NoError
                        THEN [inv EXCEPT
                                 !.pc = "create", !.existing = existing,
                                 !.env = IF readDirOk THEN inv.env
                                         ELSE Append(inv.env, "listing failed"),
                                 !.ui = Append(inv.ui,
                                               Progress("Creating FIDO2 credential..."))]
                        ELSE [inv EXCEPT
                                 !.pc = "assert", !.existing = existing,
                                 !.credentialID = existing.id,
                                 !.ui = inv.ui \o <<Info("Found existing credential"),
                                                    Progress("Using existing credential...")>>]
              /\ hist' = Counted(hist, readDirOk)
    /\ UNCHANGED <<dir, auth, saltRun, storeRun, cfgRun, proc, race>>

\* createCredential followed by saveCredentialID before its error is looked at
CreateCredentialSaveFirst ==
    /\ inv.pc = "create"
    /\ LET made == Append(inv.made, MakeCredentialRequest(inv.pin, inv.config))
           failed == [inv EXCEPT !.pc = "done", !.made = made,
                                 !.err = "CredentialCreationFailed",
                                 !.env = Append(inv.env, "creation failed")]
       IN  \/ /\ FALSE \in Outcomes \/ CredPool \subseteq auth.issued
              /\ inv' = failed
              /\ hist' = Returned(Counted(hist, FALSE), failed)
              /\ auth' = auth
              /\ dir' = saveCredentialID(dir, inv.credentialID, TRUE).dir
           \/ \E id \in CredPool \ auth.issued :
                 /\ inv' = [inv EXCEPT !.pc = "save", !.made = made, !.credentialID = id]
                 /\ auth' = [auth EXCEPT !.issued = auth.issued \cup {id}]
                 /\ hist' = hist
                 /\ dir' = dir
    /\ UNCHANGED <<saltRun, storeRun, cfgRun, proc, race>>

\* createCredential whose error is recorded but does not end the invocation
CreateCredentialUnchecked ==
    /\ inv.pc = "create"
    /\ LET made == Append(inv.made, MakeCredentialRequest(inv.pin, inv.config))
       IN  \/ /\ FALSE \in Outcomes \/ CredPool \subseteq auth.issued
              /\ inv' = [inv EXCEPT !.pc = "assert", !.made = made,
                                    !.err = "CredentialCreationFailed",
                                    !.env = Append(inv.env, "creation failed")]
              /\ hist' = Counted(hist, FALSE)
              /\ auth' = auth
           \/ \E id \in CredPool \ auth.issued :
                 /\ inv' = [inv EXCEPT !.pc = "save", !.made = made, !.credentialID = id]
                 /\ auth' = [auth EXCEPT !.issued = auth.issued \cup {id}]
                 /\ hist' = hist
    /\ UNCHANGED <<dir, saltRun, storeRun, cfgRun, proc, race>>

\* step 3 (lines 75-79): createCredential, the authenticator's MakeCredential
CreateCredential ==
    /\ inv.pc = "create"
    /\ LET made == Append(inv.made, MakeCredentialRequest(inv.pin, inv.config))
           failed == [inv EXCEPT !.pc = "done", !.made = made,
                                 !.err = "CredentialCreationFailed",
                                 !.env = Append(inv.env, "creation failed")]
       IN  \/ /\ FALSE \in Outcomes \/ CredPool \subseteq auth.issued
              /\ inv' = failed
              /\ hist' = Returned(Counted(hist, FALSE), failed)
              /\ auth' = auth
           \/ \E id \in CredPool \ auth.issued :
                 /\ inv' = [inv EXCEPT !.pc = "save", !.made = made, !.credentialID = id]
                 /\ auth' = [auth EXCEPT !.issued = auth.issued \cup {id}]
                 /\ hist' = hist
    /\ UNCHANGED <<dir, saltRun, storeRun, cfgRun, proc, race>>

\* step 3 with the record left to be written after the assertion
SaveCredentialDeferred ==
    /\ inv.pc = "save"
    /\ inv' = [inv EXCEPT !.pc = "assert"]
    /\ UNCHANGED <<dir, auth, hist, saltRun, storeRun, cfgRun, proc, race>>

\* step 3 with a failure of saveCredentialID returned to the caller
SaveCredentialFatal ==
    /\ inv.pc = "save"
    /\ \E writeOk \in Outcomes :
          LET saved == saveCredentialID(dir, inv.credentialID, writeOk)
              after == IF saved.err = NoError
                       THEN [inv EXCEPT !.pc = "assert",
                                        !.ui = Append(inv.ui, Info("Saved credential ID"))]
                       ELSE [inv EXCEPT !.pc = "done", !.saveErr = saved.err,
                                        !.err = "CredentialStoreIOFailed",
                                        !.env = Append(inv.env, "write failed")]
          IN  /\ dir' = saved.dir
              /\ inv' = after
              /\ hist' = IF saved.err = NoError THEN Counted(hist, writeOk)
                         ELSE Returned(Counted(hist, writeOk), after)
    /\ UNCHANGED <<auth, saltRun, storeRun, cfgRun, proc, race>>

\* step 3 (lines 81-85): saveCredentialID; its failure is shown and nothing more
SaveCredential ==
    /\ inv.pc = "save"
    /\ \E writeOk \in Outcomes :
          LET saved == saveCredentialID(dir, inv.credentialID, writeOk)
          IN  /\ dir' = saved.dir
              /\ inv' = [inv EXCEPT
                     !.pc = "assert", !.saveErr = saved.err,
                     !.env = IF saved.err = NoError THEN inv.env
                             ELSE Append(inv.env, "write failed"),
                     !.ui = Append(inv.ui,
                                   IF saved.err # NoError
                                   THEN Error("failed to save credential ID")
                                   ELSE Info("Saved credential ID"))]
              /\ hist' = Counted(hist, writeOk)
    /\ UNCHANGED <<auth, saltRun, storeRun, cfgRun, proc, race>>

\* the answers the environment allows now
AnswersNow(credentialID, salt) ==
    IF hist.faults < MaxFaults
    THEN AssertionAnswers(credentialID, salt)
    ELSE {a \in AssertionAnswers(credentialID, salt) : Len(a.HMACSecret) > 0}

\* steps 4 and 5 with the assertion issued again after a failure
DeriveSecretRetry ==
    /\ inv.pc = "assert"
    /\ \E assertion \in AnswersNow(inv.credentialID, inv.salt) :
          LET ui == Append(inv.ui, Progress("Deriving HMAC secret..."))
              asserted == Append(inv.asserted,
                                 AssertionRequest(inv.credentialID, inv.salt, inv.pin,
                                                  inv.config))
              derived == deriveSecret(assertion)
              result == [Secret |-> derived.secret, Salt |-> inv.salt,
                         CredentialID |-> inv.credentialID, Device |-> inv.device,
                         Timestamp |-> hist.runs + 1,
                         RelyingParty |-> inv.config.RelyingPartyID]
              after == IF derived.err # NoError
                       THEN [inv EXCEPT !.ui = ui, !.asserted = asserted,
                                        !.env = Append(inv.env, "no secret")]
                       ELSE [inv EXCEPT
                                !.pc = "done", !.asserted = asserted,
                                !.answer = assertion, !.result = result,
                                !.ui = Append(ui, Success("HMAC secret derived successfully!"))]
          IN  /\ inv' = after
              /\ hist' = IF derived.err # NoError THEN Counted(hist, FALSE)
                         ELSE Returned(hist, after)
    /\ UNCHANGED <<dir, auth, saltRun, storeRun, cfgRun, proc, race>>

\* steps 4 and 5 (lines 92-110): deriveSecret and the result
DeriveSecret ==
    /\ inv.pc = "assert"
    /\ \E assertion \in AnswersNow(inv.credentialID, inv.salt) :
          LET ui == Append(inv.ui, Progress("Deriving HMAC secret..."))
              asserted == Append(inv.asserted,
                                 AssertionRequest(inv.credentialID, inv.salt, inv.pin,
                                                  inv.config))
              derived == deriveSecret(assertion)
              result == [Secret |-> derived.secret, Salt |-> inv.salt,
                         CredentialID |-> inv.credentialID, Device |-> inv.device,
                         Timestamp |-> hist.runs + 1,
                         RelyingParty |-> inv.config.RelyingPartyID]
              after == IF derived.err # NoError
                       THEN [inv EXCEPT !.pc = "done", !.ui = ui, !.asserted = asserted,
                                        !.answer = assertion, !.err = derived.err,
                                        !.env = Append(inv.env, "no secret")]
                       ELSE [inv EXCEPT
                                !.pc = "done", !.asserted = asserted,
                                !.answer = assertion, !.result = result,
                                !.ui = Append(ui, Success("HMAC secret derived successfully!"))]
          IN  /\ inv' = after
              /\ hist' = Returned(Counted(hist, Len(assertion.HMACSecret) > 0), after)
    /\ UNCHANGED <<dir, auth, saltRun, storeRun, cfgRun, proc, race>>

Next ==
    \/ Call
    \/ Connect
    \/ ComputeSalt
    \/ LoadCredential
    \/ CreateCredential
    \/ SaveCredential
    \/ DeriveSecret

Spec == Init /\ [][Next]_vars

----------------------------------------------------------------------------
(* ConfigSpec: ValidateConfiguration, and what Application.Run does with its answer *)

\* ValidateConfiguration with the "at least 16 bytes" check left out
ValidateConfigurationPositiveOnly(config) ==
    IF config = None THEN "configuration is nil"
    ELSE IF config.RelyingPartyID = "" THEN "relying party ID cannot be empty"
    ELSE IF config.RelyingPartyName = "" THEN "relying party name cannot be empty"
    ELSE IF config.UserID = "" THEN "user ID cannot be empty"
    ELSE IF config.UserName = "" THEN "user name cannot be empty"
    ELSE IF config.SaltSize <= 0 THEN "salt size must be positive"
    ELSE NoError

\* ValidateConfiguration: the error it returns, NoError for nil
ValidateConfiguration(config) ==
    IF config = None THEN "configuration is nil"
    ELSE IF config.RelyingPartyID = "" THEN "relying party ID cannot be empty"
    ELSE IF config.RelyingPartyName = "" THEN "relying party name cannot be empty"
    ELSE IF config.UserID = "" THEN "user ID cannot be empty"
    ELSE IF config.UserName = "" THEN "user name cannot be empty"
    ELSE IF config.SaltSize <= 0 THEN "salt size must be positive"
    ELSE IF config.SaltSize < 16 THEN "salt size should be at least 16 bytes for security"
    ELSE NoError

\* the configurations handed to the validation: every combination of empty and
\* non-empty fields with salt sizes around 0 and 16, and no configuration at all
ConfigSaltSizes == {-1, 0, 1, 8, 15, 16, 17, 32}
ConfigInputs ==
    [RelyingPartyID : {"", "e2e-git"}, RelyingPartyName : {"", "End-to-End Git Encryption"},
     UserID : {"", "hmac-user"}, UserName : {"", "hmac-user"},
     UserDisplayName : {"", "HMAC Secret User"}, SaltSize : ConfigSaltSizes]
    \cup {None}

ConfigInit ==
    /\ \E config \in ConfigInputs :
          cfgRun = [pc |-> "validate", config |-> config, err |-> NoError]
    /\ dir = {}
    /\ auth = IdleAuth
    /\ inv = IdleInv
    /\ hist = IdleHist
    /\ saltRun = IdleSaltRun
    /\ storeRun = IdleStoreRun
    /\ proc = IdleProc
    /\ race = IdleRace

\* main.go line 117: the call
ConfigValidate ==
    /\ cfgRun.pc = "validate"
    /\ cfgRun' = [cfgRun EXCEPT !.pc = "validated",
                                !.err = ValidateConfiguration(cfgRun.config)]
    /\ UNCHANGED <<dir, auth, inv, hist, saltRun, storeRun, proc, race>>

\* main.go lines 117-120: an error ends Run ("configuration validation failed")
ConfigReject ==
    /\ cfgRun.pc = "validated"
    /\ cfgRun.err # NoError
    /\ cfgRun' = [cfgRun EXCEPT !.pc = "rejected"]
    /\ UNCHANGED <<dir, auth, inv, hist, saltRun, storeRun, proc, race>>

\* main.go lines 122-125: no error, the configuration goes to DeriveHMACSecret
ConfigDerive ==
    /\ cfgRun.pc = "validated"
    /\ cfgRun.err = NoError
    /\ cfgRun' = [cfgRun EXCEPT !.pc = "derive"]
    /\ UNCHANGED <<dir, auth, inv, hist, saltRun, storeRun, proc, race>>

ConfigNext == ConfigValidate \/ ConfigReject \/ ConfigDerive

ConfigSpec == ConfigInit /\ [][ConfigNext]_vars

----------------------------------------------------------------------------
(* RunSpec: one run of the program, main and Application.Run around DeriveHMACSecret *)

\* what is written to standard output, one record per call of the display
Welcome == [kind |-> "welcome", msg |-> "FIDO2 HMAC Secret Deriver"]
DevicesShown(devices) == [kind |-> "devices", count |-> Len(devices)]
Prompt(msg) == [kind |-> "prompt", msg |-> msg]
Newline == [kind |-> "newline"]

\* OutputKeyOnly: one line, the base64 encoding of the secret
OutputKeyOnly(result) == << [kind |-> "key", line |-> EncodeToString(result.Secret)] >>

\* DisplayResults: the report, which shows the secret, the salt and the credential id
DisplayResults(result) ==
    << [kind |-> "results", secret |-> EncodeToString(result.Secret),
        credentialID |-> EncodeToString(result.CredentialID),
        saltLength |-> Len(result.Salt), device |-> result.Device,
        relyingParty |-> result.RelyingParty] >>

\* libfido2.DeviceLocations: what it may find
DeviceLists == { <<>>, <<YubiKey10>>, <<YubiKey10, Solo1>> }

\* SelectDeviceByPath: the device of the list at that path
SelectDeviceByPath(devices, path) ==
    IF \E i \in 1..Len(devices) : devices[i].Path = path
    THEN [err |-> NoError,
          device |-> devices[CHOOSE i \in 1..Len(devices) : devices[i].Path = path]]
    ELSE [err |-> "device not found", device |-> None]

\* GetPINFromEnvironment: the value of the variable, an error when it has none
GetPINFromEnvironment(value) ==
    IF value = "" THEN [err |-> "PIN environment variable is empty", pin |-> ""]
    ELSE [err |-> NoError, pin |-> value]

\* the configuration of an Application whose salt is too short
ShortSaltConfiguration == [DefaultConfiguration EXCEPT !.SaltSize = 8]

\* fmt.Errorf("...: %w", err)
Wrap(msg, err) == msg \o ": " \o err

RunInit ==
    /\ dir \in InitDirs
    /\ auth = [issued |-> {}]
    /\ inv = IdleInv
    /\ hist = [runs |-> 0, faults |-> 0, prev |-> IdleInv, salts |-> {}]
    /\ saltRun = IdleSaltRun
    /\ storeRun = IdleStoreRun
    /\ cfgRun = IdleCfgRun
    /\ race = IdleRace
    /\ \E keyOnly \in BOOLEAN, fidoDevice \in {"", "/dev/hidraw10", "/dev/hidraw7"},
          pinEnvVar \in {"", "FIDO_PIN"},
          config \in {DefaultConfiguration, ShortSaltConfiguration} :
          proc = [pc |-> "start", keyOnly |-> keyOnly, fidoDevice |-> fidoDevice,
                  pinEnvVar |-> pinEnvVar, config |-> config,
                  devices |-> <<>>, selected |-> None, pin |-> "",
                  out |-> <<>>, failed |-> "", err |-> NoError, exit |-> -1,
                  opened |-> <<>>]

\* a step of Run fails: the error is displayed and Run returns it, wrapped
RunFails(p, out, step, err, msg) ==
    [p EXCEPT !.pc = "returned", !.out = Append(out, Error(err)),
              !.failed = step, !.err = Wrap(msg, err)]

\* main.go lines 63-72: the welcome and ListDevices
RunListDevices ==
    /\ proc.pc = "start"
    /\ LET out == proc.out \o <<Welcome, Progress("Searching for FIDO2 devices...")>>
       IN  \/ proc' = RunFails(proc, out, "discovery", "failed to discover FIDO2 devices",
                               "device discovery failed")
           \/ \E devices \in DeviceLists :
                 proc' = IF Len(devices) = 0
                         THEN RunFails(proc, out, "discovery", "no FIDO2 devices found",
                                       "device discovery failed")
                         ELSE [proc EXCEPT
                                  !.pc = "select", !.devices = devices,
                                  !.out = Append(out,
                                      Success("Found " \o ToString(Len(devices))
                                              \o " FIDO2 device(s)"))]
    /\ UNCHANGED <<dir, auth, inv, hist, saltRun, storeRun, cfgRun, race>>

\* main.go lines 74-90: the device, by its path or by the operator's choice
RunSelectDevice ==
    /\ proc.pc = "select"
    /\ IF proc.fidoDevice # ""
       THEN LET r == SelectDeviceByPath(proc.devices, proc.fidoDevice)
            IN  proc' = IF r.err # NoError
                        THEN RunFails(proc, proc.out, "selection", r.err,
                                      "device selection by path failed")
                        ELSE [proc EXCEPT !.pc = "validate", !.selected = r.device]
       ELSE LET out == proc.out \o <<DevicesShown(proc.devices),
                                     Prompt("Please select a device")>>
            IN  \/ proc' = RunFails(proc, out, "selection", "failed to get user selection",
                                    "device selection failed")
                \/ \E choice \in 1..Len(proc.devices) :
                      proc' = [proc EXCEPT
                                  !.pc = "validate", !.selected = proc.devices[choice],
                                  !.out = Append(out, Success("Selected device: "
                                                     \o proc.devices[choice].Name))]
    /\ UNCHANGED <<dir, auth, inv, hist, saltRun, storeRun, cfgRun, race>>

\* main.go lines 92-96: ValidateDevice, which opens the device once
RunValidateDevice ==
    /\ proc.pc = "validate"
    /\ LET out == Append(proc.out, Progress("Validating device accessibility..."))
           \* part_001 line 126: libfido2.NewDevice(device.Path)
           opened == Append(proc.opened, proc.selected.Path)
       IN  \E ok \in BOOLEAN :
              proc' = IF ok
                      THEN [proc EXCEPT !.pc = "pin", !.out = out, !.opened = opened]
                      ELSE [RunFails(proc, out, "validation",
                                     "device is no longer accessible",
                                     "device validation failed")
                            EXCEPT !.opened = opened]
    /\ UNCHANGED <<dir, auth, inv, hist, saltRun, storeRun, cfgRun, race>>

\* main.go lines 98-114: the PIN, from the environment or from the terminal
RunGetPIN ==
    /\ proc.pc = "pin"
    /\ IF proc.pinEnvVar # ""
       THEN \E value \in {"", "123456"} :
               LET r == GetPINFromEnvironment(value)
               IN  proc' = IF r.err # NoError
                           THEN RunFails(proc, proc.out, "pin", r.err,
                                         "PIN retrieval from environment failed")
                           ELSE [proc EXCEPT !.pc = "config", !.pin = r.pin]
       ELSE LET out == proc.out \o <<Prompt("Enter your FIDO2 device PIN: "), Newline>>
            IN  \/ \E pin \in {"", "123456"} :
                      proc' = IF pin = ""
                              THEN [RunFails(proc, out, "pin",
                                             "PIN is required for FIDO2 operations", "")
                                    EXCEPT !.err = "no PIN provided"]
                              ELSE [proc EXCEPT !.pc = "config", !.pin = pin, !.out = out]
                \* term.ReadPassword fails: GetPIN shows the failure and returns ""
                \/ proc' = [RunFails(proc, Append(out, Error("Failed to read PIN")), "pin",
                                     "PIN is required for FIDO2 operations", "")
                            EXCEPT !.err = "no PIN provided"]
    /\ UNCHANGED <<dir, auth, inv, hist, saltRun, storeRun, cfgRun, race>>

\* main.go lines 116-120: ValidateConfiguration
RunValidateConfiguration ==
    /\ proc.pc = "config"
    /\ LET out == Append(proc.out, Progress("Validating configuration..."))
           err == ValidateConfiguration(proc.config)
       IN  proc' = IF err # NoError
                   THEN RunFails(proc, out, "configuration", err,
                                 "configuration validation failed")
                   ELSE [proc EXCEPT !.pc = "derive", !.out = out]
    /\ UNCHANGED <<dir, auth, inv, hist, saltRun, storeRun, cfgRun, race>>

\* main.go lines 122-125: the call of DeriveHMACSecret
RunDerive ==
    /\ proc.pc = "derive"
    /\ proc' = [proc EXCEPT
           !.pc = "deriving",
           !.out = proc.out \o
               <<Info("Starting HMAC secret derivation process..."),
                 Info("You will need to touch your FIDO2 device when it blinks")>>]
    /\ inv' = NewInvocation(proc.selected, proc.pin, proc.config, dir)
    /\ UNCHANGED <<dir, auth, hist, saltRun, storeRun, cfgRun, race>>

\* main.go lines 125-137 writing the key whether or not the derivation failed
RunFinishKeyAlways ==
    /\ proc.pc = "deriving"
    /\ inv.pc = "done"
    /\ LET out == proc.out \o inv.ui
           shown == IF inv.result = None
                    THEN [Secret |-> <<0, 0, 0, 0>>]
                    ELSE inv.result
       IN  proc' = IF inv.err # NoError /\ ~proc.keyOnly
                   THEN RunFails(proc, out, "derivation", inv.err,
                                 "HMAC secret derivation failed")
                   ELSE IF inv.err # NoError
                   THEN RunFails(proc, out \o OutputKeyOnly(shown), "derivation", inv.err,
                                 "HMAC secret derivation failed")
                   ELSE [proc EXCEPT
                            !.pc = "returned",
                            !.out = out \o (IF proc.keyOnly
                                            THEN OutputKeyOnly(inv.result)
                                            ELSE DisplayResults(inv.result))]
    /\ UNCHANGED <<dir, auth, inv, hist, saltRun, storeRun, cfgRun, race>>

\* main.go lines 125-137: DeriveHMACSecret has returned; its error, or the output
RunFinish ==
    /\ proc.pc = "deriving"
    /\ inv.pc = "done"
    /\ LET out == proc.out \o inv.ui
       IN  proc' = IF inv.err # NoError
                   THEN RunFails(proc, out, "derivation", inv.err,
                                 "HMAC secret derivation failed")
                   ELSE [proc EXCEPT
                            !.pc = "returned",
                            !.out = out \o (IF proc.keyOnly
                                            THEN OutputKeyOnly(inv.result)
                                            ELSE DisplayResults(inv.result))]
    /\ UNCHANGED <<dir, auth, inv, hist, saltRun, storeRun, cfgRun, race>>

\* main returning normally whatever Run returned
MainExitZero ==
    /\ proc.pc = "returned"
    /\ proc' = [proc EXCEPT !.pc = "exited", !.exit = 0]
    /\ UNCHANGED <<dir, auth, inv, hist, saltRun, storeRun, cfgRun, race>>

\* main.go lines 154-160: Run has returned; the error is displayed, the process exits
MainExit ==
    /\ proc.pc = "returned"
    /\ proc' = IF proc.err # NoError
               THEN [proc EXCEPT !.pc = "exited", !.exit = 1,
                                 !.out = Append(proc.out, Error(proc.err))]
               ELSE [proc EXCEPT !.pc = "exited", !.exit = 0]
    /\ UNCHANGED <<dir, auth, inv, hist, saltRun, storeRun, cfgRun, race>>

RunNext ==
    \/ RunListDevices
    \/ RunSelectDevice
    \/ RunValidateDevice
    \/ RunGetPIN
    \/ RunValidateConfiguration
    \/ RunDerive
    \/ Connect
    \/ ComputeSalt
    \/ LoadCredential
    \/ CreateCredential
    \/ SaveCredential
    \/ DeriveSecret
    \/ RunFinish
    \/ MainExit

RunSpec == RunInit /\ [][RunNext]_vars

\* standard output so far: the display calls of Run and of the running derivation
Stdout == proc.out \o (IF proc.pc = "deriving" THEN inv.ui ELSE <<>>)

----------------------------------------------------------------------------
(* RaceSpec: two runs of the program in the same working directory, with the same *)
(* authenticator, their steps interleaved; nothing in the code orders them         *)

Procs == {1, 2}

\* the credential ids the authenticator may hand out to the two
RaceCredPool == {CredId(k) : k \in 1..(MaxCreds + 1)}

RaceCalls ==
    { [device |-> YubiKey10, pin |-> "123456", config |-> DefaultConfiguration],
      [device |-> YubiKey10, pin |-> "123456", config |-> WideConfiguration] }

RaceInit ==
    /\ dir \in {{}, {File(NotesTxt, <<104, 105>>)}}
    /\ auth = [issued |-> {}]
    /\ \E c1 \in RaceCalls, c2 \in RaceCalls :
          race = [pc |-> "running", faults |-> 0, saved |-> <<>>,
                  inv |-> [p \in Procs |->
                              IF p = 1
                              THEN NewInvocation(c1.device, c1.pin, c1.config, dir)
                              ELSE NewInvocation(c2.device, c2.pin, c2.config, dir)]]
    /\ inv = IdleInv
    /\ hist = IdleHist
    /\ saltRun = IdleSaltRun
    /\ storeRun = IdleStoreRun
    /\ cfgRun = IdleCfgRun
    /\ proc = IdleProc

RaceOutcomes == IF race.faults < MaxFaults THEN BOOLEAN ELSE {TRUE}

\* process p has taken a step that leaves its invocation as i
RaceStep(p, i, ok) ==
    [race EXCEPT !.inv[p] = i, !.faults = IF ok THEN race.faults ELSE race.faults + 1]

\* step 1 (lines 52-60) of process p
RaceConnect ==
    /\ \E p \in Procs, ok \in RaceOutcomes :
          LET i == race.inv[p]
              ui == Append(i.ui, Progress("Connecting to FIDO2 device..."))
          IN  /\ i.pc = "open"
              /\ race' = RaceStep(p,
                     IF ok THEN [i EXCEPT !.pc = "salt", !.ui = ui, !.dev = i.device.Path]
                     ELSE [i EXCEPT !.pc = "done", !.ui = ui, !.err = "TransportOpenFailed",
                                    !.env = Append(i.env, "open failed")],
                     ok)
    /\ UNCHANGED <<dir, auth, inv, hist, saltRun, storeRun, cfgRun, proc>>

\* step 2 (lines 62-67) of process p
RaceComputeSalt ==
    /\ \E p \in Procs :
          LET i == race.inv[p]
          IN  /\ i.pc = "salt"
              /\ race' = RaceStep(p,
                     [i EXCEPT
                        !.pc = "load",
                        !.ui = Append(i.ui, Progress("Generating deterministic salt...")),
                        !.salt = generateDeterministicSalt(i.config.SaltSize, i.device.Path,
                                                           i.config.RelyingPartyID)],
                     TRUE)
    /\ UNCHANGED <<dir, auth, inv, hist, saltRun, storeRun, cfgRun, proc>>

\* step 3 (lines 69-74, 86-90) of process p: loadCredentialID on the directory as it is
RaceLoad ==
    /\ \E p \in Procs, readDirOk \in RaceOutcomes :
          LET i == race.inv[p]
              existing == loadCredentialID(dir, readDirOk)
          IN  /\ i.pc = "load"
              /\ race' = RaceStep(p,
                     IF existing.err # NoError
                     THEN [i EXCEPT
                              !.pc = "create", !.existing = existing,
                              !.env = IF readDirOk THEN i.env
                                      ELSE Append(i.env, "listing failed"),
                              !.ui = Append(i.ui, Progress("Creating FIDO2 credential..."))]
                     ELSE [i EXCEPT
                              !.pc = "assert", !.existing = existing,
                              !.credentialID = existing.id,
                              !.ui = i.ui \o <<Info("Found existing credential"),
                                               Progress("Using existing credential...")>>],
                     readDirOk)
    /\ UNCHANGED <<dir, auth, inv, hist, saltRun, storeRun, cfgRun, proc>>

\* step 3 of process p looking at the directory once more before it creates
RaceCreateRechecked ==
    /\ \E p \in Procs :
          LET i == race.inv[p]
              made == Append(i.made, MakeCredentialRequest(i.pin, i.config))
              again == loadCredentialID(dir, TRUE)
          IN  /\ i.pc = "create"
              /\ IF again.err = NoError
                 THEN /\ race' = RaceStep(p, [i EXCEPT !.pc = "assert",
                                                       !.credentialID = again.id], TRUE)
                      /\ auth' = auth
                 ELSE \/ /\ FALSE \in RaceOutcomes
                         /\ race' = RaceStep(p,
                                [i EXCEPT !.pc = "done", !.made = made,
                                          !.err = "CredentialCreationFailed",
                                          !.env = Append(i.env, "creation failed")],
                                FALSE)
                         /\ auth' = auth
                      \/ \E id \in RaceCredPool \ auth.issued :
                            /\ race' = RaceStep(p, [i EXCEPT !.pc = "save", !.made = made,
                                                             !.credentialID = id], TRUE)
                            /\ auth' = [auth EXCEPT !.issued = auth.issued \cup {id}]
    /\ UNCHANGED <<dir, inv, hist, saltRun, storeRun, cfgRun, proc>>

\* step 3 (lines 75-79) of process p: createCredential
RaceCreate ==
    /\ \E p \in Procs :
          LET i == race.inv[p]
              made == Append(i.made, MakeCredentialRequest(i.pin, i.config))
          IN  /\ i.pc = "create"
              /\ \/ /\ FALSE \in RaceOutcomes
                    /\ race' = RaceStep(p,
                           [i EXCEPT !.pc = "done", !.made = made,
                                     !.err = "CredentialCreationFailed",
                                     !.env = Append(i.env, "creation failed")],
                           FALSE)
                    /\ auth' = auth
                 \/ \E id \in RaceCredPool \ auth.issued :
                       /\ race' = RaceStep(p, [i EXCEPT !.pc = "save", !.made = made,
                                                        !.credentialID = id], TRUE)
                       /\ auth' = [auth EXCEPT !.issued = auth.issued \cup {id}]
    /\ UNCHANGED <<dir, inv, hist, saltRun, storeRun, cfgRun, proc>>

\* step 3 (lines 81-85) of process p: saveCredentialID into the directory as it is
RaceSave ==
    /\ \E p \in Procs, writeOk \in RaceOutcomes :
          LET i == race.inv[p]
              saved == saveCredentialID(dir, i.credentialID, writeOk)
              after == [i EXCEPT
                          !.pc = "assert", !.saveErr = saved.err,
                          !.env = IF saved.err = NoError THEN i.env
                                  ELSE Append(i.env, "write failed"),
                          !.ui = Append(i.ui,
                                        IF saved.err # NoError
                                        THEN Error("failed to save credential ID")
                                        ELSE Info("Saved credential ID"))]
          IN  /\ i.pc = "save"
              /\ dir' = saved.dir
              /\ race' = [RaceStep(p, after, writeOk) EXCEPT
                             !.saved = IF saved.err = NoError
                                       THEN Append(race.saved, p) ELSE race.saved]
    /\ UNCHANGED <<auth, inv, hist, saltRun, storeRun, cfgRun, proc>>

\* steps 4 and 5 (lines 92-110) of process p
RaceDerive ==
    /\ \E p \in Procs :
          LET i == race.inv[p]
              answers == IF race.faults < MaxFaults
                         THEN AssertionAnswers(i.credentialID, i.salt)
                         ELSE {a \in AssertionAnswers(i.credentialID, i.salt) :
                                  Len(a.HMACSecret) > 0}
          IN  /\ i.pc = "assert"
              /\ \E assertion \in answers :
                    LET ui == Append(i.ui, Progress("Deriving HMAC secret..."))
                        asserted == Append(i.asserted,
                                           AssertionRequest(i.credentialID, i.salt, i.pin,
                                                            i.config))
                        derived == deriveSecret(assertion)
                        result == [Secret |-> derived.secret, Salt |-> i.salt,
                                   CredentialID |-> i.credentialID, Device |-> i.device,
                                   Timestamp |-> 1,
                                   RelyingParty |-> i.config.RelyingPartyID]
                    IN  race' = RaceStep(p,
                            IF derived.err # NoError
                            THEN [i EXCEPT !.pc = "done", !.ui = ui, !.asserted = asserted,
                                           !.answer = assertion, !.err = derived.err,
                                           !.env = Append(i.env, "no secret")]
                            ELSE [i EXCEPT
                                     !.pc = "done", !.asserted = asserted,
                                     !.answer = assertion, !.result = result,
                                     !.ui = Append(ui,
                                         Success("HMAC secret derived successfully!"))],
                            Len(assertion.HMACSecret) > 0)
    /\ UNCHANGED <<dir, auth, inv, hist, saltRun, storeRun, cfgRun, proc>>

RaceNext ==
    \/ RaceConnect
    \/ RaceComputeSalt
    \/ RaceLoad
    \/ RaceCreate
    \/ RaceSave
    \/ RaceDerive

RaceSpec == RaceInit /\ [][RaceNext]_vars

----------------------------------------------------------------------------
(* the credential record store: properties (StoreSpec) *)

IsRecordName(name) == HasSuffix(name, CredSuffix)

\* the records of a directory that a load can use
LoadableRecords(d) ==
    {e \in d : IsRecordName(e.name) /\ e.readable /\ DecodeString(e.data).ok}

\* the character of a record name that stands for character c of the encoding
Sanitized(c) == IF c = Slash THEN Underscore ELSE IF c = Plus THEN Minus ELSE c

\* the name the data model gives the record of id: the first 16 characters of the
\* encoding (all of it when shorter), sanitized, then ".cred"
RecordNameOf(id) ==
    LET enc == EncodeToString(id)
        n == IF Len(enc) < 16 THEN Len(enc) ELSE 16
    IN  [i \in 1..(n + 5) |-> IF i <= n THEN Sanitized(enc[i]) ELSE CredSuffix[i - n]]

\* C4: round trip. After a successful saveCredentialID(id) into a directory with no
\* other '.cred' entry, loadCredentialID (its directory listing having succeeded)
\* returns exactly id.
C4_RoundTrip ==
    ( /\ storeRun.pc = "loaded"
      /\ storeRun.saved.err = NoError
      /\ storeRun.loaded.err # "read dir failed"
      /\ \A e \in storeRun.dir0 : IsRecordName(e.name) => e.name = storeRun.saved.file )
    => ( /\ storeRun.loaded.err = NoError
         /\ storeRun.loaded.id = storeRun.id )

\* the round trip of an id longer than the 12 bytes its file name is made from
C4_Witness ==
    /\ storeRun.pc = "loaded"
    /\ storeRun.saved.err = NoError
    /\ \A e \in storeRun.dir0 : ~IsRecordName(e.name)
    /\ Len(storeRun.id) > 12
    /\ storeRun.loaded.err = NoError
    /\ storeRun.loaded.id = storeRun.id

\* C5: file name determinism. A successful saveCredentialID(id) leaves a file named
\* sanitize(base64(id)[0:16]) + ".cred" whose whole content is base64(id); the name
\* holds no '/' and no '+' and ends in the suffix the load scans for; no other entry
\* of the directory is touched.
C5_FilenameDeterminism ==
    ( /\ storeRun.pc = "load"
      /\ storeRun.saved.err = NoError )
    => LET name == RecordNameOf(storeRun.id)
       IN  /\ storeRun.saved.file = name
           /\ \E e \in dir : e.name = name /\ e.data = EncodeToString(storeRun.id)
           /\ \A e \in dir : e.name # name => e \in storeRun.dir0
           /\ \A e \in storeRun.dir0 : e.name # name => e \in dir
           /\ \A i \in 1..Len(name) : name[i] # Slash /\ name[i] # Plus
           /\ IsRecordName(name)

\* a record just saved whose id encodes to '/' and '+' within the first 16 characters
\* and to more than 16 characters in all
C5_Witness ==
    /\ storeRun.pc = "load"
    /\ storeRun.saved.err = NoError
    /\ LET enc == EncodeToString(storeRun.id)
       IN  /\ Len(enc) > 16
           /\ \E i \in 1..16 : enc[i] = Slash
           /\ \E i \in 17..Len(enc) : enc[i] = Plus
    /\ \E e \in dir : e.name = storeRun.saved.file /\ e.data = EncodeToString(storeRun.id)

\* the usable record that comes first in the enumeration (by file name)
FirstUsable(d) ==
    {e \in LoadableRecords(d) : \A f \in LoadableRecords(d) \ {e} : LexLess(e.name, f.name)}

\* C24: a load whose directory listing succeeded returns the id of the first entry,
\* in enumeration order, whose name ends in ".cred" and whose content can be read and
\* decodes as base64, skipping the ".cred" entries before it that cannot be read or
\* decoded; it returns NotFound exactly when there is no such entry.
C24_FirstUsableRecord ==
    (storeRun.pc = "loaded" /\ storeRun.loaded.err # "read dir failed") =>
        /\ LoadableRecords(dir) # {} =>
              /\ storeRun.loaded.err = NoError
              /\ \E e \in FirstUsable(dir) :
                    /\ storeRun.loaded.file = e.name
                    /\ storeRun.loaded.id = DecodeString(e.data).val
        /\ LoadableRecords(dir) = {} => storeRun.loaded = NotFound
        /\ storeRun.loaded.err = "not found" <=> LoadableRecords(dir) = {}

\* the load skipped an unreadable ".cred" entry and took the first of two usable ones
C24_Witness ==
    /\ storeRun.pc = "loaded"
    /\ storeRun.loaded.err = NoError
    /\ \E e \in dir : IsRecordName(e.name) /\ ~e.readable
                      /\ LexLess(e.name, storeRun.loaded.file)
    /\ \E e \in LoadableRecords(dir) : LexLess(storeRun.loaded.file, e.name)

----------------------------------------------------------------------------
(* the salt deriver: properties (SaltSpec, SaltFairSpec) *)

\* C7: exact length. Every call of generateDeterministicSalt with n > 0 returns, with
\* no error and a salt of exactly n bytes (checked under SaltFairSpec: the call keeps
\* being scheduled).
C7_ExactLength ==
    (saltRun.pc = "call" /\ saltRun.size > 0)
        ~> ( /\ saltRun.pc = "done"
             /\ saltRun.err = NoError
             /\ Len(saltRun.salt) = saltRun.size )

\* n = 40: a whole block, then the first 8 bytes of the second
C7_Witness ==
    /\ saltRun.pc = "done"
    /\ saltRun.size = 40
    /\ saltRun.counter = 2
    /\ Len(saltRun.salt) = 40
    /\ saltRun.salt[40] = <<saltRun.path \o ":" \o saltRun.rpID \o ":1", 8>>

\* byte i (from 1) of hash(text)
HashByte(text, i) == <<text, i>>

\* "path:rpID" and "path:rpID:k" for a one-digit k
SpecSaltText(path, rpID) == path \o ":" \o rpID
SpecBlockText(path, rpID, k) ==
    path \o ":" \o rpID \o ":" \o <<"0", "1", "2", "3", "4", "5", "6", "7", "8", "9">>[k + 1]

\* C8: salt value. For n <= 32 the salt is the first n bytes of hash("path:rpID");
\* for n > 32 byte i (from 0) is byte i mod 32 of hash("path:rpID:k"), k = i div 32;
\* "/dev/hidraw10", "e2e-git", 32 gives hash("/dev/hidraw10:e2e-git").
C8_SaltValue ==
    saltRun.pc = "done" =>
        /\ Len(saltRun.salt) = saltRun.size
        /\ saltRun.size <= 32 =>
              \A i \in 1..saltRun.size :
                  saltRun.salt[i] = HashByte(SpecSaltText(saltRun.path, saltRun.rpID), i)
        /\ saltRun.size > 32 =>
              \A i \in 1..saltRun.size :
                  saltRun.salt[i] =
                      HashByte(SpecBlockText(saltRun.path, saltRun.rpID, (i - 1) \div 32),
                               ((i - 1) % 32) + 1)
        /\ ( /\ saltRun.path = "/dev/hidraw10"
             /\ saltRun.rpID = "e2e-git"
             /\ saltRun.size = 32 ) =>
              saltRun.salt = [i \in 1..32 |-> HashByte("/dev/hidraw10:e2e-git", i)]

\* a salt of more than two blocks has been returned
C8_Witness ==
    /\ saltRun.pc = "done"
    /\ saltRun.size > 64
    /\ saltRun.salt[1] = HashByte(SpecBlockText(saltRun.path, saltRun.rpID, 0), 1)
    /\ saltRun.salt[65] = HashByte(SpecBlockText(saltRun.path, saltRun.rpID, 2), 1)

\* C9: two distinct (device path, relying party id) pairs have distinct salts of the
\* same size, whatever characters the two strings hold.
C9_DistinctPairsDistinctSalts ==
    \A r1, r2 \in SaltResults :
        (r1.size = r2.size /\ <<r1.path, r1.rpID>> # <<r2.path, r2.rpID>>)
            => r1.salt # r2.salt

----------------------------------------------------------------------------
(* the derivation: properties (Spec) *)

\* the invocation has returned and the one before it has too
TwoRuns == inv.pc = "done" /\ hist.prev.pc = "done"

SameCall(i, j) ==
    /\ i.device.Path = j.device.Path
    /\ i.config = j.config
    /\ i.pin = j.pin

C2_IdempotentReuse ==
    ( /\ inv.pc \in {"create", "save", "assert", "done"}
      /\ inv.dev # Nil
      /\ LoadableRecords(inv.dir0) # {} )
    => ( /\ inv.pc \notin {"create", "save"}
         /\ inv.made = <<>>
         /\ inv.existing.err = NoError
         /\ inv.credentialID = inv.existing.id
         /\ \E e \in LoadableRecords(inv.dir0) : DecodeString(e.data).val = inv.existing.id
         /\ \A k \in 1..Len(inv.asserted) :
               inv.asserted[k].credentialIDs = <<inv.existing.id>> )

\* the (device, identity) pairing of an invocation
Pairing(i) == <<i.device.Path, i.config.RelyingPartyID>>

\* the invocation created a credential and saved its record
CreatedRecord(i) == i.pc = "done" /\ Len(i.made) = 1 /\ i.dev # Nil /\ i.saveErr = NoError
                    /\ i.err # "CredentialCreationFailed"

\* C3: a credential record belongs to the (device, identity) pairing whose invocation
\* created it: an invocation that reuses the record the previous invocation created
\* (neither disturbed by its environment) is an invocation for the same pairing, an
\* invocation for another pairing creating its own.
C3_OneRecordPerPairing ==
    ( /\ hist.prev.pc = "done"
      /\ CreatedRecord(hist.prev)
      /\ inv.pc \in {"assert", "done"}
      /\ inv.existing.err = NoError
      /\ inv.existing.id = hist.prev.credentialID
      /\ hist.prev.env = <<>>
      /\ inv.env = <<>> )
    => Pairing(inv) = Pairing(hist.prev)

\* the salts computed so far, each with the triple it was computed for
SaltsComputed ==
    hist.salts \cup
    (IF inv.pc \in {"load", "create", "save", "assert"}
     THEN {[path |-> inv.device.Path, rpID |-> inv.config.RelyingPartyID,
            size |-> inv.config.SaltSize, salt |-> inv.salt]}
     ELSE {})

C10_EmptySecretRejected ==
    /\ ( /\ inv.pc = "done"
         /\ inv.answer # None
         /\ inv.answer.err = NoError
         /\ Len(inv.answer.HMACSecret) = 0 )
       => (inv.err # NoError /\ inv.result = None)
    /\ (inv.pc = "done" /\ inv.result # None)
       => (inv.err = NoError /\ Len(inv.result.Secret) > 0)

\* the assertion succeeded with no HMAC-secret and the invocation failed
C10_Witness ==
    /\ inv.pc = "done"
    /\ inv.answer # None
    /\ inv.answer.err = NoError
    /\ inv.answer.HMACSecret = <<>>
    /\ inv.err = "EmptySecretReturned"
    /\ inv.result = None

\* the credential id of the invocation is one the authenticator issued in it
FreshCredential(i) ==
    /\ Len(i.made) = 1
    /\ i.existing.err # NoError
    /\ i.credentialID \in auth.issued
    /\ i.credentialID # <<>>

\* C13: a failure of saveCredentialID after a successful creation does not end the
\* invocation: it goes on to the assertion with the fresh credential id, nothing
\* having been written, and an assertion that succeeds gives a successful result
\* carrying that id.
C13_SaveFailureNotFatal ==
    (inv.pc \in {"assert", "done"} /\ inv.saveErr # NoError) =>
        /\ FreshCredential(inv)
        /\ inv.err \in {NoError, "AssertionFailed", "EmptySecretReturned"}
        /\ \A e \in dir : DecodeString(e.data).val # inv.credentialID \/ ~DecodeString(e.data).ok
        /\ inv.pc = "done" =>
              /\ Len(inv.asserted) = 1
              /\ inv.asserted[1].credentialIDs = <<inv.credentialID>>
              /\ (inv.answer.err = NoError /\ Len(inv.answer.HMACSecret) > 0) =>
                    /\ inv.err = NoError
                    /\ inv.result # None
                    /\ inv.result.CredentialID = inv.credentialID
                    /\ inv.result.Secret = inv.answer.HMACSecret

\* the save failed, the assertion succeeded and the result carries the unsaved id
C13_Witness ==
    /\ inv.pc = "done"
    /\ inv.saveErr # NoError
    /\ inv.env = <<"write failed">>
    /\ inv.result # None
    /\ inv.result.CredentialID = inv.credentialID
    /\ inv.credentialID \in auth.issued
    /\ dir = inv.dir0

\* C14: when the directory cannot be listed by the load, the invocation fails with a
\* credential store I/O error; it does not take the failure for "no credential" and
\* does not go on to create a credential.
C14_UnreadableRootFatal ==
    (inv.pc \in {"create", "save", "assert", "done"} /\ inv.dev # Nil
     /\ inv.existing.err = "read dir failed") =>
        /\ inv.pc = "done"
        /\ inv.err = "CredentialStoreIOFailed"
        /\ inv.made = <<>>
        /\ inv.asserted = <<>>

\* the phases an invocation has gone through, by its position
Connected(i) == i.pc \in {"salt", "load", "create", "save", "assert"} \/ (i.pc = "done" /\ i.dev # Nil)
SaltReady(i) == Connected(i) /\ i.pc # "salt" /\ Len(i.salt) = i.config.SaltSize
CredentialResolved(i) ==
    /\ SaltReady(i)
    /\ i.credentialID # <<>>
    /\ \/ i.existing.err = NoError /\ i.credentialID = i.existing.id /\ i.made = <<>>
       \/ FreshCredential(i) /\ i.pc \in {"assert", "done"}

PhaseSteps ==
    { <<"open", "salt">>, <<"salt", "load">>, <<"load", "assert">>, <<"load", "create">>,
      <<"create", "save">>, <<"save", "assert">>, <<"assert", "done">>,
      <<"open", "done">>, <<"create", "done">> }

\* C15: within one invocation the phases come in the order connect, salt, resolve
\* (load, then create and save on a miss), assert; a ceremony is issued only in its
\* phase, the assertion only with a resolved credential id; and an invocation that
\* has failed is at its end, issues nothing more and has no result.
C15_PhaseOrder ==
    /\ [](inv.pc # "idle" =>
            /\ inv.err # NoError => (inv.pc = "done" /\ inv.result = None)
            /\ inv.pc \in {"salt", "load", "create", "save", "assert"} => Connected(inv)
            /\ inv.pc \in {"load", "create", "save", "assert"} => SaltReady(inv)
            /\ inv.pc = "assert" => CredentialResolved(inv)
            /\ inv.made # <<>> => (SaltReady(inv) /\ inv.existing.err # NoError)
            /\ inv.asserted # <<>> => (inv.pc = "done" /\ CredentialResolved(inv)))
    /\ [][ inv.pc # "idle" =>
             \/ inv.pc = "done" /\ inv'.pc = "open"
             \/ /\ <<inv.pc, inv'.pc>> \in PhaseSteps
                /\ inv'.made # inv.made => inv.pc = "create"
                /\ inv'.asserted # inv.asserted => inv.pc = "assert"
                /\ inv'.credentialID # inv.credentialID => inv.pc \in {"load", "create"}
                /\ inv'.salt # inv.salt => inv.pc = "salt"
                /\ inv'.dev # inv.dev => inv.pc = "open" ]_vars

\* an invocation whose creation ceremony failed has ended without an assertion
C15_Witness ==
    /\ inv.pc = "done"
    /\ inv.err = "CredentialCreationFailed"
    /\ Len(inv.made) = 1
    /\ inv.asserted = <<>>
    /\ inv.result = None
    /\ Len(inv.salt) = inv.config.SaltSize

\* C22: the secret of a successful result is exactly the HMAC-secret the
\* authenticator returned for the assertion, untransformed; the result's salt and
\* credential id are the ones that assertion was issued with, its relying party the
\* configured relying party id, its device the device of the call.
C22_ResultVerbatim ==
    (inv.pc = "done" /\ inv.result # None) =>
        /\ Len(inv.asserted) = 1
        /\ inv.answer # None
        /\ inv.answer.err = NoError
        /\ inv.result.Secret = inv.answer.HMACSecret
        /\ inv.result.Salt = inv.asserted[1].HMACSalt
        /\ inv.asserted[1].credentialIDs = <<inv.result.CredentialID>>
        /\ inv.result.RelyingParty = inv.config.RelyingPartyID
        /\ inv.result.Device = inv.device

\* a result for the relying party "x" with the authenticator's four secret bytes
C22_Witness ==
    /\ inv.pc = "done"
    /\ inv.result # None
    /\ inv.result.RelyingParty = "x"
    /\ Len(inv.result.Salt) = 40
    /\ Len(inv.result.Secret) = 4
    /\ inv.result.Secret = inv.answer.HMACSecret

\* the salt of the data model for a device path, relying party id and size
SpecSalt(path, rpID, n) ==
    [i \in 1..n |->
        IF n <= 32 THEN HashByte(SpecSaltText(path, rpID), i)
        ELSE HashByte(SpecBlockText(path, rpID, (i - 1) \div 32), ((i - 1) % 32) + 1)]

\* C23: every assertion is issued with the salt of this invocation (the Salt
\* Deriver's output for its device path, relying party id and salt size) as HMAC
\* salt, the hash of that salt as client data hash, exactly one credential id (the
\* resolved one), the configured relying party id, the PIN, the HMAC-secret
\* extension and user presence required.
C23_AssertionParameters ==
    inv.pc # "idle" =>
        \A k \in 1..Len(inv.asserted) :
            LET a == inv.asserted[k]
            IN  /\ a.HMACSalt = SpecSalt(inv.device.Path, inv.config.RelyingPartyID,
                                         inv.config.SaltSize)
                /\ a.HMACSalt = inv.salt
                /\ a.clientDataHash = [sha256 |-> a.HMACSalt]
                /\ Len(a.credentialIDs) = 1
                /\ a.credentialIDs[1] = inv.credentialID
                /\ CredentialResolved(inv)
                /\ a.rpID = inv.config.RelyingPartyID
                /\ a.pin = inv.pin
                /\ a.extensions = <<"hmac-secret">>
                /\ a.UP = TRUE

\* an assertion with a reused credential and a salt of two blocks
C23_Witness ==
    /\ inv.pc = "done"
    /\ Len(inv.asserted) = 1
    /\ inv.existing.err = NoError
    /\ inv.asserted[1].credentialIDs = <<inv.existing.id>>
    /\ Len(inv.asserted[1].HMACSalt) = 40
    /\ inv.asserted[1].clientDataHash.sha256 = inv.salt

\* C27: an invocation whose creation ceremony failed has left the directory as it
\* found it (nothing saved, no file written or overwritten) and has issued no
\* assertion; an invocation on the reuse path (its load succeeded) writes nothing to
\* the directory either, and creates nothing.
C27_NoWriteWithoutCreation ==
    /\ (inv.pc = "done" /\ inv.err = "CredentialCreationFailed") =>
          /\ dir = inv.dir0
          /\ inv.asserted = <<>>
          /\ inv.saveErr = NoError
          /\ inv.credentialID = <<>>
    /\ (inv.pc \in {"assert", "done"} /\ inv.dev # Nil /\ inv.existing.err = NoError) =>
          /\ dir = inv.dir0
          /\ inv.made = <<>>

\* the creation failed in a directory that holds files, and the files are as before
C27_Witness ==
    /\ inv.pc = "done"
    /\ inv.err = "CredentialCreationFailed"
    /\ inv.dir0 # {}
    /\ dir = inv.dir0
    /\ inv.asserted = <<>>

\* the directory holds the record of the credential id, under the record's name
Persisted(d, id) ==
    \E e \in d : /\ e.name = RecordNameOf(id)
                 /\ e.readable
                 /\ DecodeString(e.data) = [ok |-> TRUE, val |-> id]

\* the invocation created a credential, saved its record and then failed to derive
CreatedThenFailed(i) ==
    /\ i.pc = "done"
    /\ i.dev # Nil
    /\ Len(i.made) = 1
    /\ i.existing.err = "not found"
    /\ i.saveErr = NoError
    /\ i.err \in {"AssertionFailed", "EmptySecretReturned"}

----------------------------------------------------------------------------
(* the configuration: properties (ConfigSpec) *)

\* the identity fields of a configuration are all non-empty
IdentityFieldsSet(config) ==
    /\ config.RelyingPartyID # ""
    /\ config.RelyingPartyName # ""
    /\ config.UserID # ""
    /\ config.UserName # ""
    /\ config.UserDisplayName # ""

\* C11: configuration validation. ValidateConfiguration rejects every configuration
\* whose salt size is below 16 (8, 0 and negative sizes included), rejects an empty
\* relying party id, and accepts salt size 16 when the identity fields are non-empty.
C11_ConfigurationValidation ==
    (cfgRun.pc \in {"validated", "rejected", "derive"} /\ cfgRun.config # None) =>
        /\ cfgRun.config.SaltSize < 16 => cfgRun.err # NoError
        /\ cfgRun.config.RelyingPartyID = "" => cfgRun.err # NoError
        /\ (cfgRun.config.SaltSize = 16 /\ IdentityFieldsSet(cfgRun.config))
              => cfgRun.err = NoError

\* salt size 15 with every other field in order has been rejected
C11_Witness ==
    /\ cfgRun.pc = "rejected"
    /\ cfgRun.config # None
    /\ IdentityFieldsSet(cfgRun.config)
    /\ cfgRun.config.SaltSize = 15
    /\ cfgRun.err # NoError

\* C12: a configuration that passes the validation and reaches DeriveHMACSecret has
\* a salt size of at least 16 and non-empty relyingPartyID, relyingPartyName, userID,
\* userName and userDisplayName; a configuration with one of them empty is rejected.
C12_ValidatedConfigurationComplete ==
    /\ cfgRun.pc = "derive" =>
          /\ cfgRun.config # None
          /\ cfgRun.config.SaltSize >= 16
          /\ IdentityFieldsSet(cfgRun.config)
    /\ ( /\ cfgRun.pc \in {"validated", "rejected", "derive"}
         /\ cfgRun.config # None
         /\ ~IdentityFieldsSet(cfgRun.config) )
       => cfgRun.err # NoError

----------------------------------------------------------------------------
(* the program run: properties (RunSpec) *)

\* C16: no retries. In one run of the program the credential creation ceremony is
\* issued at most once and the assertion ceremony at most once, whatever the
\* authenticator answers; the authenticator has then issued at most one credential.
C16_NoRetries ==
    /\ inv.pc # "idle" =>
          /\ Len(inv.made) <= 1
          /\ Len(inv.asserted) <= 1
          /\ inv.err # NoError => inv.pc = "done"
    /\ Cardinality(auth.issued) <= 1
    /\ inv.pc = "idle" => auth.issued = {}

\* the program has exited after its one assertion failed
C16_Witness ==
    /\ proc.pc = "exited"
    /\ inv.pc = "done"
    /\ inv.err = "AssertionFailed"
    /\ Len(inv.asserted) = 1
    /\ Len(inv.made) = 1

\* the positions of standard output that show a secret
SecretLines == {i \in 1..Len(Stdout) : Stdout[i].kind \in {"key", "results"}}

\* C17: in key-only mode the secret is written only once the whole derivation has
\* succeeded, and then completely, as one base64 line that decodes to the secret the
\* authenticator returned; on every failure of Run no secret line is written.
C17_KeyAllOrNothing ==
    (proc.pc # "idle" /\ proc.keyOnly) =>
        /\ \A i \in SecretLines :
              /\ Stdout[i].kind = "key"
              /\ i = Len(proc.out) \/ (proc.pc = "exited" /\ i = Len(proc.out) - 1)
              /\ proc.pc \in {"returned", "exited"}
              /\ inv.pc = "done"
              /\ inv.err = NoError
              /\ inv.result # None
              /\ DecodeString(Stdout[i].line) = [ok |-> TRUE, val |-> inv.answer.HMACSecret]
              /\ \A k \in 1..Len(Stdout[i].line) : ~IsNewline(Stdout[i].line[k])
        /\ Cardinality(SecretLines) <= 1
        /\ (proc.err # NoError \/ proc.failed # "") => SecretLines = {}
        /\ (proc.pc \in {"returned", "exited"} /\ proc.err = NoError) =>
              SecretLines = {Len(proc.out)}

\* a key-only run has exited with the key as its last line
C17_Witness ==
    /\ proc.pc = "exited"
    /\ proc.keyOnly
    /\ proc.exit = 0
    /\ proc.out[Len(proc.out)].kind = "key"
    /\ DecodeString(proc.out[Len(proc.out)].line).val = inv.result.Secret
    /\ Len(inv.result.Secret) > 0

\* C18: with --key-only the only thing written to standard output is the derived
\* key: no welcome, progress, info or success message.
C18_KeyOnlyStdoutIsKey ==
    (proc.pc # "idle" /\ proc.keyOnly) =>
        \A i \in 1..Len(Stdout) : Stdout[i].kind = "key"

\* C19: the process exits with code 0 exactly when Run returns no error, and with
\* code 1 whenever a step of Run (discovery, selection, validation, PIN,
\* configuration, derivation) returns an error.
C19_ExitCode ==
    /\ (proc.pc # "idle" /\ proc.pc # "exited") => proc.exit = -1
    /\ proc.pc \in {"returned", "exited"} =>
          /\ proc.failed # "" <=> proc.err # NoError
          /\ (inv.pc = "done" /\ inv.err # NoError) => proc.failed = "derivation"
          /\ proc.failed = "" => (inv.pc = "done" /\ inv.err = NoError)
    /\ proc.pc = "exited" =>
          /\ proc.exit \in {0, 1}
          /\ proc.exit = 0 <=> proc.err = NoError
          /\ proc.failed # "" => proc.exit = 1

\* the process has exited with code 1 after the derivation failed
C19_Witness ==
    /\ proc.pc = "exited"
    /\ proc.exit = 1
    /\ proc.failed = "derivation"
    /\ inv.err # NoError

\* C20: every record file that saveCredentialID creates is readable and writable by
\* its owner only: no permission bit for the group or for others.
C20_RecordOwnerOnly ==
    ( /\ storeRun.pc \in {"load", "loaded"}
      /\ storeRun.saved.err = NoError
      /\ storeRun.saved.file \notin Names(storeRun.dir0) )
    => \E e \in dir :
          /\ e.name = storeRun.saved.file
          /\ e.perm = <<6, 0, 0>>

\* the error messages on standard output
ErrorLines == {i \in 1..Len(Stdout) : Stdout[i].kind = "error"}

\* C21: a failing run shows the user exactly one error message before it exits with
\* a non-zero code; the failure is not reported more than once.
C21_OneErrorMessage ==
    (proc.pc = "exited" /\ proc.exit # 0) => Cardinality(ErrorLines) = 1

\* the calls of libfido2.NewDevice so far: by ValidateDevice and by DeriveHMACSecret
NewDeviceCalls ==
    proc.opened \o (IF inv.pc \in {"idle", "open"} THEN <<>> ELSE <<inv.device.Path>>)

\* C25: one run of the program opens exactly one authenticator session: NewDevice
\* is called exactly once, on the selected device path, between the start of the
\* program and the end of the derivation.
C25_OneSession ==
    /\ proc.pc # "idle" => Len(NewDeviceCalls) <= 1
    /\ (proc.pc \in {"returned", "exited"} /\ inv.pc = "done") =>
          NewDeviceCalls = <<proc.selected.Path>>

----------------------------------------------------------------------------
(* two runs at once: properties (RaceSpec) *)

\* the load of the invocation found no record, its directory listing having succeeded
Missed(i) == i.pc \in {"create", "save", "assert", "done"} /\ i.dev # Nil
             /\ i.existing.err = "not found"

C26_WitnessOverwritten ==
    /\ race.pc = "running"
    /\ \A p \in Procs : /\ race.inv[p].pc = "done"
                        /\ Missed(race.inv[p])
                        /\ race.inv[p].env = <<>>
    /\ race.inv[1].credentialID # race.inv[2].credentialID
    /\ Cardinality(LoadableRecords(dir)) = 1

====
